---- MODULE Spec2Model ----
(***************************************************************************)
(* Model of the speech-to-text upload service.  The repository holds two   *)
(* builds of the same server:                                              *)
(*   src/speechtxt.js      uploads kept in memory  (impl = "buffer")       *)
(*   src/unnamed/part_000  uploads kept on disk    (impl = "file")         *)
(* Both expose POST /speechtotext and GET /speechtotext/:email.            *)
(*                                                                         *)
(* Audio.  A buffer is a container tag, a sample rate and the channels of  *)
(* 16-bit PCM codes it holds.  Decoded samples are the floats node-wav     *)
(* produces (code/32768 below zero, code/32767 otherwise); they are kept   *)
(* as exact numerators over Den, the mean of two of them as a numerator    *)
(* over 2*Den.  The float32 rounding of the typed arrays is not modelled.  *)
(***************************************************************************)
EXTENDS Integers, Sequences, FiniteSets, TLC

VARIABLES
    impl,         \* which build is running: "buffer" or "file"
    pc,           \* pc[r]: where the POST handler of request r stands
    req,          \* req[r]: the multipart request (email, title, file)
    disk,         \* the uploads/ directory: path -> buffer
    loc,          \* loc[r]: the handler's local constants
    bucket,       \* the storage bucket: object name -> content
    db,           \* the Speechtotext table, in insertion order
    res,          \* res[r]: the response sent for request r
    trace,        \* trace[r]: the pipeline stages request r has run
    cause,        \* cause[r]: what made request r fail
    getRes,       \* the last GET /speechtotext/:email exchange
    inputBuffer,  \* downmixer study: the buffer handed to the downmixer
    monoResult,   \* downmixer study: the result of the first application
    monoResult2,  \* downmixer study: the result of applying it to that result
    mstep         \* downmixer study: position

vars == <<impl, pc, req, disk, loc, bucket, db, res, trace, cause, getRes,
          inputBuffer, monoResult, monoResult2, mstep>>

httpVars == <<impl, pc, req, disk, loc, bucket, db, res, trace, cause, getRes>>
monoVars == <<inputBuffer, monoResult, monoResult2, mstep>>

-----------------------------------------------------------------------------
(* Bounds of the model *)

MaxReq == 2
MaxLen == 2

(* Program constants *)

PcmNeg == 32768
PcmPos == 32767
TargetRate == 16000
FileSizeLimit == 10485760

Den == PcmNeg * PcmPos

Reqs == 1..MaxReq

SampleSet == {-32768, -1, 0, 32767}
ExtraSampleSet == {0, 32767}
SampleRates == {8000, 16000}
ChannelCounts == 0..3

-----------------------------------------------------------------------------
(* Buffers *)

NoBuffer == [container |-> "none", sampleRate |-> 0, channelData |-> <<>>]

WavBuffer(rate, chans) ==
    [container |-> "wav", sampleRate |-> rate, channelData |-> chans]

SeqsOfLen(S, n) == [1..n -> S]

\* The first k channels of <<a, b, c>>.
FirstChannels(a, b, c, k) == SubSeq(<<a, b, c>>, 1, k)

-----------------------------------------------------------------------------
(* wav.decode and wavEncoder.encode *)

\* node-wav pcm16: data < 0 ? data / 32768 : data / 32767, as a numerator
\* over Den.
DecodeSample(d) == IF d < 0 THEN d * PcmPos ELSE d * PcmNeg

\* wav.decode(buffer): throws on anything that is not a RIFF/WAVE container.
WavDecode(buffer) ==
    IF buffer.container = "wav"
    THEN [ok |-> TRUE,
          sampleRate |-> buffer.sampleRate,
          channelData |-> [c \in 1..Len(buffer.channelData) |->
                             [i \in 1..Len(buffer.channelData[c]) |->
                                DecodeSample(buffer.channelData[c][i])]]]
    ELSE [ok |-> FALSE, sampleRate |-> 0, channelData |-> <<>>]

\* wav-encoder pcm16 on a value v/(2*Den): clamp to [-1, 1], scale by 32768
\* below zero and by 32767 otherwise, Math.round (halves go up).
EncodeSample(v) ==
    LET c == IF v < -2 * Den THEN -2 * Den ELSE IF v > 2 * Den THEN 2 * Den ELSE v
    IN  IF c < 0 THEN (c + PcmPos) \div (2 * PcmPos)
                 ELSE (c + PcmNeg) \div (2 * PcmNeg)

\* wavEncoder.encode({sampleRate, channelData: [monoChannel]}): 16-bit PCM.
WavEncode(rate, monoChannel) ==
    WavBuffer(rate, <<[i \in 1..Len(monoChannel) |-> EncodeSample(monoChannel[i])]>>)

-----------------------------------------------------------------------------
(* The channel downmixer *)

MonoOk(buffer, rate) == [ok |-> TRUE, buffer |-> buffer, sampleRate |-> rate, error |-> ""]
MonoErr(e) == [ok |-> FALSE, buffer |-> NoBuffer, sampleRate |-> 0, error |-> e]

\* Mutant of MonoChannel: the left channel alone, the right one forgotten.
MonoChannelLeftOnly(channelData) ==
    [i \in 1..Len(channelData[1]) |-> 2 * channelData[1][i]]

\* (decoded.channelData[0][i] + decoded.channelData[1][i]) / 2 for every i
\* of channel 0, as numerators over 2*Den.
MonoChannel(channelData) ==
    [i \in 1..Len(channelData[1]) |-> channelData[1][i] + channelData[2][i]]

\* Mutant of convertToMonoBuffer: the early return for a mono buffer is
\* missing, so channelData[1] is undefined and the averaging throws.
convertToMonoBufferNoMonoCheck(buffer) ==
    LET decoded == WavDecode(buffer)
    IN  IF ~decoded.ok THEN MonoErr("DecodeError")
        ELSE IF Len(decoded.channelData) < 2 THEN MonoErr("TypeError")
        ELSE MonoOk(WavEncode(decoded.sampleRate, MonoChannel(decoded.channelData)),
                    decoded.sampleRate)

\* convertToMonoBuffer(inputBuffer): the buffer itself when it is mono,
\* otherwise channels 0 and 1 averaged and re-encoded.  A buffer with no
\* channel makes channelData[0] undefined and .map throws.
convertToMonoBuffer(buffer) ==
    LET decoded == WavDecode(buffer)
    IN  IF ~decoded.ok THEN MonoErr("DecodeError")
        ELSE IF Len(decoded.channelData) = 1 THEN MonoOk(buffer, decoded.sampleRate)
        ELSE IF Len(decoded.channelData) = 0 THEN MonoErr("TypeError")
        ELSE MonoOk(WavEncode(decoded.sampleRate, MonoChannel(decoded.channelData)),
                    decoded.sampleRate)

NoResult == [ok |-> FALSE, buffer |-> NoBuffer, sampleRate |-> 0, error |-> "none"]

-----------------------------------------------------------------------------
(* The audio transcoder (ffmpeg -acodec pcm_s16le -ar 16000) *)

\* Each sample held k times: what resampling by the integer factor k is
\* taken to do to a channel.
Stretch(ch, k) == [i \in 1..(k * Len(ch)) |-> ch[((i - 1) \div k) + 1]]

Resample(channelData, rate) ==
    IF rate = TargetRate THEN channelData
    ELSE [c \in 1..Len(channelData) |-> Stretch(channelData[c], TargetRate \div rate)]

\* execSync(ffmpeg -i in -acodec pcm_s16le -ar 16000 out): a 16 kHz 16-bit WAV
\* with the input's channels, or a non-zero exit on an input it cannot read.
Transcode(buffer) ==
    IF buffer.container \in {"wav", "mp3", "ogg"}
    THEN [ok |-> TRUE,
          buffer |-> WavBuffer(TargetRate, Resample(buffer.channelData, buffer.sampleRate))]
    ELSE [ok |-> FALSE, buffer |-> NoBuffer]

-----------------------------------------------------------------------------
(* Requests, files, storage objects, table rows, responses *)

Emails == {"ani@x.id", "budi@x.id"}
Titles == {"rapat", "kuliah"}
Transcripts == {"selamat pagi", "terima kasih"}

allowedMimes ==
    {"audio/wav", "audio/ogg", "audio/mp3", "audio/x-wav", "audio/x-pn-wav", "audio/wave"}

NoFile == [mimetype |-> "", size |-> 0, buffer |-> NoBuffer]

\* The uploads a client sends: a stereo WAV at 8 kHz, a mono MP3, bytes no
\* decoder reads, a type the filter refuses, a file over the size limit.
Uploads ==
    { [mimetype |-> "audio/wav", size |-> 52,
       buffer |-> WavBuffer(8000, << <<32767, -1>>, <<-32768, 0>> >>)],
      [mimetype |-> "audio/mp3", size |-> 20,
       buffer |-> [container |-> "mp3", sampleRate |-> 16000,
                   channelData |-> << <<0, -1>> >>]],
      [mimetype |-> "audio/ogg", size |-> 16,
       buffer |-> [container |-> "bin", sampleRate |-> 0, channelData |-> <<>>]],
      [mimetype |-> "video/mp4", size |-> 64,
       buffer |-> [container |-> "bin", sampleRate |-> 0, channelData |-> <<>>]],
      [mimetype |-> "audio/x-wav", size |-> FileSizeLimit + 1,
       buffer |-> WavBuffer(16000, << <<0, 0>> >>)] }

NoRequest == [email |-> "", title |-> "", file |-> NoFile, filename |-> ""]

\* The name multer's disk storage gives the upload of request r: random,
\* hence one per request.
MulterName(r) == "upload" \o ToString(r)

Suffixes == {"", "_temp.wav", "_mono.wav"}
Paths == {MulterName(r) \o sfx : r \in Reqs, sfx \in Suffixes}

ObjectNames == Titles \cup {MulterName(r) : r \in Reqs}
NoObject == [content |-> "", by |-> 0]

ObjectPath(filename) == "transcriptions/" \o filename \o ".txt"
PublicUrl(filename) == "https://storage.googleapis.com/bucket/" \o ObjectPath(filename)

NoRow == [id |-> 0, audioUrl |-> "", text |-> "", fileName |-> "", createdByEmail |-> ""]

NoLoc ==
    [monoBuffer |-> NoBuffer, sampleRate |-> 0, transcription |-> "",
     transcriptionUrl |-> "", saved |-> FALSE, rowId |-> 0]

NoResponse == [status |-> 0, error |-> "", data |-> <<>>]

Respond(status, error, data) == [status |-> status, error |-> error, data |-> data]

HttpInit ==
    /\ pc = [r \in Reqs |-> "idle"]
    /\ req = [r \in Reqs |-> NoRequest]
    /\ disk = [p \in Paths |-> NoBuffer]
    /\ loc = [r \in Reqs |-> NoLoc]
    /\ bucket = [n \in ObjectNames |-> NoObject]
    /\ db = <<>>
    /\ res = [r \in Reqs |-> NoResponse]
    /\ trace = [r \in Reqs |-> <<>>]
    /\ cause = [r \in Reqs |-> ""]
    /\ getRes = [email |-> "", status |-> 0, error |-> "", data |-> <<>>]

MonoIdle ==
    /\ inputBuffer = NoBuffer
    /\ monoResult = NoResult
    /\ monoResult2 = NoResult
    /\ mstep = "off"

Init ==
    /\ impl \in {"buffer", "file"}
    /\ HttpInit
    /\ MonoIdle

-----------------------------------------------------------------------------
(* POST /speechtotext *)

GenericFailure == "Failed to create transcription"

\* The handler's catch block: whatever was thrown, the same 500 body.
PipelineError(kind) == Respond(500, GenericFailure, <<>>)

Fail(r, kind) ==
    /\ res' = [res EXCEPT ![r] = PipelineError(kind)]
    /\ cause' = [cause EXCEPT ![r] = kind]
    /\ pc' = [pc EXCEPT ![r] = "done"]

\* upload.single('audio'): the file filter, the size limit, then the storage
\* engine (memory in the buffer build, uploads/<random name> in the file
\* build).  A refused file goes to Express's error handler, not to the route.
Receive(r) ==
    /\ pc[r] = "idle"
    /\ IF r = 1 THEN TRUE ELSE pc[r - 1] # "idle"
    /\ \E email \in Emails \cup {""}, title \in Titles \cup {""},
          file \in Uploads \cup {NoFile} :
          \/ /\ file # NoFile
             /\ file.mimetype \notin allowedMimes
             /\ res' = [res EXCEPT ![r] =
                   Respond(500, "Format file tidak didukung. Hanya WAV, OGG, MP3 diperbolehkan.", <<>>)]
             /\ cause' = [cause EXCEPT ![r] = "MimeRejected"]
             /\ pc' = [pc EXCEPT ![r] = "done"]
             /\ UNCHANGED <<req, disk>>
          \/ /\ file # NoFile
             /\ file.mimetype \in allowedMimes
             /\ file.size > FileSizeLimit
             /\ res' = [res EXCEPT ![r] = Respond(500, "File too large", <<>>)]
             /\ cause' = [cause EXCEPT ![r] = "FileTooLarge"]
             /\ pc' = [pc EXCEPT ![r] = "done"]
             /\ UNCHANGED <<req, disk>>
          \/ /\ file # NoFile => (file.mimetype \in allowedMimes /\ file.size <= FileSizeLimit)
             /\ req' = [req EXCEPT ![r] =
                   [email |-> email, title |-> title, file |-> file,
                    filename |-> IF impl = "file" /\ file # NoFile THEN MulterName(r) ELSE ""]]
             /\ disk' = IF impl = "file" /\ file # NoFile
                        THEN [disk EXCEPT ![MulterName(r)] = file.buffer]
                        ELSE disk
             /\ pc' = [pc EXCEPT ![r] = "handler"]
             /\ UNCHANGED <<res, cause>>
    /\ UNCHANGED <<impl, loc, bucket, db, trace, getRes>>
    /\ UNCHANGED monoVars

tempWavFile(r) == req[r].filename \o "_temp.wav"
monoFile(r) == req[r].filename \o "_mono.wav"

\* convertAudioToWav(inputFile, tempWavFile): ffmpeg from file to file; any
\* failure is rethrown as 'Error saat konversi audio ke WAV.'
convertAudioToWav(d, inputFile, outputFile) ==
    LET out == Transcode(d[inputFile])
    IN  [ok |-> out.ok,
         disk |-> IF out.ok THEN [d EXCEPT ![outputFile] = out.buffer] ELSE d,
         error |-> IF out.ok THEN "" ELSE "TranscodeFailure"]

\* convertToMono(inputFile, outputFile): the downmixer from file to file,
\* returning the decoded sample rate.
convertToMono(d, inputFile, outputFile) ==
    LET out == convertToMonoBuffer(d[inputFile])
    IN  [ok |-> out.ok,
         disk |-> IF out.ok THEN [d EXCEPT ![outputFile] = out.buffer] ELSE d,
         sampleRate |-> out.sampleRate,
         error |-> out.error]

\* getSampleRateFromWavBuffer(inputBuffer)
getSampleRateFromWavBuffer(buffer) == WavDecode(buffer).sampleRate

\* if (!email || !title || !req.file)
MissingField(r) == req[r].email = "" \/ req[r].title = "" \/ req[r].file = NoFile

\* The buffer build's handler from its first line to the recognize call:
\* validation, convertToMonoBuffer on the uploaded bytes, the sample rate read
\* back from the mono buffer.  Every await on the way resolves without I/O, so
\* no other request runs in between.
HandleBuffer(r) ==
    /\ impl = "buffer"
    /\ IF MissingField(r)
       THEN /\ res' = [res EXCEPT ![r] =
                  Respond(400, "Email, title, and audio file are required", <<>>)]
            /\ pc' = [pc EXCEPT ![r] = "done"]
            /\ UNCHANGED <<loc, trace, cause>>
       ELSE LET out == convertToMonoBuffer(req[r].file.buffer)
            IN  IF out.ok
                THEN /\ loc' = [loc EXCEPT
                            ![r].monoBuffer = out.buffer,
                            ![r].sampleRate = getSampleRateFromWavBuffer(out.buffer)]
                     /\ trace' = [trace EXCEPT ![r] = <<"downmix", "recognize">>]
                     /\ pc' = [pc EXCEPT ![r] = "transcribe"]
                     /\ UNCHANGED <<res, cause>>
                ELSE /\ Fail(r, out.error)
                     /\ UNCHANGED <<loc, trace>>
    /\ UNCHANGED disk

\* The file build's handler from its first line to the recognize call:
\* validation, convertAudioToWav into <name>_temp.wav, convertToMono into
\* <name>_mono.wav, the mono file read for the request.
HandleFile(r) ==
    /\ impl = "file"
    /\ IF MissingField(r)
       THEN /\ res' = [res EXCEPT ![r] =
                  Respond(400, "Email, title, and audio file are required", <<>>)]
            /\ pc' = [pc EXCEPT ![r] = "done"]
            /\ UNCHANGED <<disk, loc, trace, cause>>
       ELSE LET wavd == convertAudioToWav(disk, req[r].filename, tempWavFile(r))
                mono == convertToMono(wavd.disk, tempWavFile(r), monoFile(r))
            IN  IF ~wavd.ok
                THEN /\ Fail(r, wavd.error)
                     /\ UNCHANGED <<disk, loc, trace>>
                ELSE IF ~mono.ok
                THEN /\ Fail(r, mono.error)
                     /\ disk' = wavd.disk
                     /\ trace' = [trace EXCEPT ![r] = <<"normalize">>]
                     /\ UNCHANGED loc
                ELSE /\ disk' = mono.disk
                     /\ loc' = [loc EXCEPT ![r].sampleRate = mono.sampleRate]
                     /\ trace' = [trace EXCEPT ![r] = <<"normalize", "downmix", "recognize">>]
                     /\ pc' = [pc EXCEPT ![r] = "transcribe"]
                     /\ UNCHANGED <<res, cause>>

\* The route handler, entered once multer has stored the upload.
Handle(r) ==
    /\ pc[r] = "handler"
    /\ HandleBuffer(r) \/ HandleFile(r)
    /\ UNCHANGED <<impl, req, bucket, db, getRes>>
    /\ UNCHANGED monoVars

\* client.recognize settles: the transcript (the results' first alternatives
\* joined by newlines), or a rejection.
Transcribe(r) ==
    /\ pc[r] = "transcribe"
    /\ \/ /\ \E text \in Transcripts :
                loc' = [loc EXCEPT ![r].transcription = text]
          /\ pc' = [pc EXCEPT ![r] = "save"]
          /\ UNCHANGED <<res, cause>>
       \/ /\ Fail(r, "RecognitionFailure")
          /\ UNCHANGED loc
    /\ UNCHANGED <<impl, req, disk, bucket, db, trace, getRes>>
    /\ UNCHANGED monoVars

\* The filename the handler passes to saveTranscriptionToCloud: the title in
\* the buffer build, multer's file name in the file build.
StorageName(r) == IF impl = "buffer" THEN req[r].title ELSE req[r].filename

\* saveTranscriptionToCloud(transcription, filename): file.save, then the URL.
Save(r) ==
    /\ pc[r] = "save"
    /\ \/ /\ bucket' = [bucket EXCEPT ![StorageName(r)] =
                          [content |-> loc[r].transcription, by |-> r]]
          /\ loc' = [loc EXCEPT ![r].transcriptionUrl = PublicUrl(StorageName(r)),
                                ![r].saved = TRUE]
          /\ pc' = [pc EXCEPT ![r] = "insert"]
          /\ UNCHANGED <<res, cause>>
       \/ /\ Fail(r, "StorageFailure")
          /\ UNCHANGED <<bucket, loc>>
    /\ UNCHANGED <<impl, req, disk, db, trace, getRes>>
    /\ UNCHANGED monoVars

\* Speechtotext.create({audioUrl, text, fileName, createdByEmail}), then 201.
Insert(r) ==
    /\ pc[r] = "insert"
    /\ \/ /\ LET row == [id |-> Len(db) + 1,
                         audioUrl |-> loc[r].transcriptionUrl,
                         text |-> loc[r].transcription,
                         fileName |-> StorageName(r),
                         createdByEmail |-> req[r].email]
             IN  /\ db' = Append(db, row)
                 /\ loc' = [loc EXCEPT ![r].rowId = row.id]
                 /\ res' = [res EXCEPT ![r] = Respond(201, "", <<row>>)]
          /\ pc' = [pc EXCEPT ![r] = "done"]
          /\ UNCHANGED cause
       \/ /\ Fail(r, "DatabaseFailure")
          /\ UNCHANGED <<db, loc>>
    /\ UNCHANGED <<impl, req, disk, bucket, trace, getRes>>
    /\ UNCHANGED monoVars

-----------------------------------------------------------------------------
(* GET /speechtotext/:email *)

\* Mutant of findAll: the where clause is dropped.
findAllNoWhere(email) == db

\* Speechtotext.findAll({ where: { createdByEmail: email } }): the rows of the
\* email, in table order.
findAll(email) ==
    LET F[i \in 0..Len(db)] ==
            IF i = 0 THEN <<>>
            ELSE IF db[i].createdByEmail = email THEN Append(F[i - 1], db[i])
                 ELSE F[i - 1]
    IN  F[Len(db)]

\* The route's answer once the query has returned.
GetResponse(email, transcriptions) ==
    IF email = "" THEN Respond(400, "Email parameter is required", <<>>)
    ELSE IF Len(transcriptions) = 0
         THEN Respond(404, "No transcriptions found for this email", <<>>)
         ELSE Respond(200, "", transcriptions)

Get(email) ==
    /\ \/ LET out == GetResponse(email, findAll(email))
          IN  getRes' = [email |-> email, status |-> out.status,
                         error |-> out.error, data |-> out.data]
       \/ getRes' = [email |-> email, status |-> 500,
                     error |-> "Failed to fetch transcriptions", data |-> <<>>]
    /\ UNCHANGED <<impl, pc, req, disk, loc, bucket, db, res, trace, cause>>
    /\ UNCHANGED monoVars

Next ==
    \/ \E r \in Reqs :
          \/ Receive(r)
          \/ Handle(r)
          \/ Transcribe(r)
          \/ Save(r)
          \/ Insert(r)
    \/ \E email \in Emails : Get(email)

Spec == Init /\ [][Next]_vars

-----------------------------------------------------------------------------
(* The downmixer on its own *)

\* Every WAV buffer of the bounded domain: 0..3 channels of one common
\* length 0..MaxLen; the third channel draws from ExtraSampleSet.
InitMono ==
    /\ impl = "buffer"
    /\ HttpInit
    /\ \E rate \in SampleRates, n \in 0..MaxLen, k \in ChannelCounts :
          \E a \in SeqsOfLen(SampleSet, n), b \in SeqsOfLen(SampleSet, n),
             c \in SeqsOfLen(ExtraSampleSet, n) :
             inputBuffer = WavBuffer(rate, FirstChannels(a, b, c, k))
    /\ monoResult = NoResult
    /\ monoResult2 = NoResult
    /\ mstep = "input"

\* The downmixer applied to the input.
DownmixOnce ==
    /\ mstep = "input"
    /\ monoResult' = convertToMonoBuffer(inputBuffer)
    /\ mstep' = "once"
    /\ UNCHANGED <<inputBuffer, monoResult2>>
    /\ UNCHANGED httpVars

\* The downmixer applied to its own output.
DownmixAgain ==
    /\ mstep = "once"
    /\ monoResult.ok
    /\ monoResult2' = convertToMonoBuffer(monoResult.buffer)
    /\ mstep' = "twice"
    /\ UNCHANGED <<inputBuffer, monoResult>>
    /\ UNCHANGED httpVars

NextMono == DownmixOnce \/ DownmixAgain

SpecMono == InitMono /\ [][NextMono]_vars

-----------------------------------------------------------------------------
(* Properties of the downmixer (SpecMono) *)

InputChannels == Len(inputBuffer.channelData)

\* The exact mean of input samples i of channels 0 and 1, over 2*Den.
InputMean(i) ==
    DecodeSample(inputBuffer.channelData[1][i]) + DecodeSample(inputBuffer.channelData[2][i])

\* Output sample i as wav.decode reads it back, over 2*Den.
OutputSample(i) == 2 * DecodeSample(monoResult.buffer.channelData[1][i])

Abs(x) == IF x < 0 THEN -x ELSE x

\* C3: a waveform whose channel count is neither 1 nor 2 makes the downmixer
\* fail with ChannelCountUnsupported and produce no output.
C3_ChannelCountUnsupported ==
    (mstep # "input" /\ InputChannels \notin {1, 2})
        => (~monoResult.ok /\ monoResult.error = "ChannelCountUnsupported")

StereoShape ==
    /\ monoResult.ok
    /\ monoResult.buffer.container = "wav"
    /\ monoResult.buffer.sampleRate = inputBuffer.sampleRate
    /\ monoResult.sampleRate = inputBuffer.sampleRate
    /\ Len(monoResult.buffer.channelData) = 1
    /\ Len(monoResult.buffer.channelData[1]) = Len(inputBuffer.channelData[1])

\* C4 as stated: for a two-channel waveform of N samples the output has one
\* channel of N samples, sample i equal to (left[i] + right[i]) / 2, and the
\* input's sample rate.
C4_ExactMean ==
    (mstep # "input" /\ InputChannels = 2)
        => /\ StereoShape
           /\ \A i \in 1..Len(inputBuffer.channelData[1]) : OutputSample(i) = InputMean(i)

\* C4 as amended: for a two-channel waveform of N samples the output has one
\* channel of N samples and the input's sample rate, and sample i is the mean
\* (left[i] + right[i]) / 2 within 16-bit quantization tolerance: it differs
\* from the exact mean by at most 1/32768.
C4_QuantizedMean ==
    (mstep # "input" /\ InputChannels = 2)
        => /\ StereoShape
           /\ \A i \in 1..Len(inputBuffer.channelData[1]) :
                  Abs(OutputSample(i) - InputMean(i)) <= 2 * PcmPos

\* A stereo waveform has been downmixed and one of its means fell between
\* two 16-bit codes.
C4_Witness ==
    /\ mstep = "once"
    /\ InputChannels = 2
    /\ monoResult.ok
    /\ Len(inputBuffer.channelData[1]) >= 1
    /\ \E i \in 1..Len(inputBuffer.channelData[1]) : OutputSample(i) # InputMean(i)

\* C5: for a one-channel waveform the downmixer returns the very buffer it
\* was given, and applying it to that result returns the same result again.
C5_MonoIdentity ==
    InputChannels = 1
        => /\ mstep # "input" => (monoResult.ok /\ monoResult.buffer = inputBuffer)
           /\ mstep = "twice" => monoResult2 = monoResult

\* A mono waveform with samples has gone through the downmixer twice.
C5_Witness ==
    /\ mstep = "twice"
    /\ InputChannels = 1
    /\ Len(inputBuffer.channelData[1]) >= 1
    /\ monoResult2.ok

-----------------------------------------------------------------------------
(* Properties of the service (Spec) *)

Finished(r) == pc[r] = "done"
Failed(r) == Finished(r) /\ res[r].status # 201

\* C1: a POST request that ends with a failure response has left no
\* transcript object in the bucket and no row in the table.
C1_FailedPersistsNothing ==
    \A r \in Reqs :
        Failed(r) => /\ \A n \in ObjectNames : bucket[n].by # r
                     /\ loc[r].rowId = 0

\* C2: in every POST request the downmixer runs only after the format
\* normalizer has completed, and the recognition call is reached only after
\* both, in that order.
C2_NormalizeBeforeDownmix ==
    \A r \in Reqs : \A i \in 1..Len(trace[r]) :
        /\ trace[r][i] = "downmix" =>
              \E j \in 1..(i - 1) : trace[r][j] = "normalize"
        /\ trace[r][i] = "recognize" =>
              \E j \in 1..(i - 1) : \E k \in (j + 1)..(i - 1) :
                  trace[r][j] = "normalize" /\ trace[r][k] = "downmix"

\* C6: once a POST request has been answered, every temporary file it
\* created (the upload, the transcoder's WAV, the mono WAV) is gone.
C6_TempFilesRemoved ==
    \A r \in Reqs :
        Finished(r) => \A sfx \in Suffixes : disk[MulterName(r) \o sfx] = NoBuffer

\* C7: requests share nothing: the temp paths of two requests differ, and the
\* object a request stored is still the one it wrote, holding its transcript,
\* whatever the other requests did.
C7_NoSharedState ==
    /\ \A r1, r2 \in Reqs :
          (r1 # r2 /\ req[r1].filename # "" /\ req[r2].filename # "")
              => req[r1].filename # req[r2].filename
    /\ \A r \in Reqs :
          loc[r].saved =>
              bucket[StorageName(r)] = [content |-> loc[r].transcription, by |-> r]

\* C8: every failure of the POST pipeline is answered with a response that
\* names its kind: never the generic one, and never the same response for two
\* failures of different kinds.
C8_DistinctNamedFailures ==
    /\ \A r \in Reqs :
          (Finished(r) /\ res[r].status = 500) => res[r].error # GenericFailure
    /\ \A r1, r2 \in Reqs :
          (Finished(r1) /\ Finished(r2) /\ res[r1].status = 500 /\ res[r2].status = 500
             /\ cause[r1] # cause[r2])
              => res[r1].error # res[r2].error

\* The rows of the table submitted by email.
RowsOf(email) == {db[i] : i \in {j \in 1..Len(db) : db[j].createdByEmail = email}}

SeqRange(q) == {q[i] : i \in 1..Len(q)}

\* The answer the lookup owes: 200 with exactly the rows of the email, each
\* once, or 404 when there is none.
LookupAnswer(email, answer) ==
    IF RowsOf(email) = {}
    THEN answer.status = 404 /\ answer.data = <<>>
    ELSE /\ answer.status = 200
         /\ SeqRange(answer.data) = RowsOf(email)
         /\ Len(answer.data) = Cardinality(RowsOf(email))

\* C9 as stated: GET /speechtotext/:email answers 200 with exactly the rows
\* whose createdByEmail is the email when there is one, 404 when there is
\* none, and leaves the table and the bucket as they were.
C9_GetAlwaysAnswers ==
    [][\A email \in Emails :
          Get(email) => /\ LookupAnswer(email, getRes')
                        /\ db' = db /\ bucket' = bucket]_vars

\* C9 as amended: when the table query succeeds, GET /speechtotext/:email
\* answers 200 with exactly the rows whose createdByEmail is the email when
\* there is one and 404 when there is none; when the query fails it answers
\* 500 with no rows; in every case the table and the bucket stay as they were.
C9_GetAnswersOrFails ==
    [][\A email \in Emails :
          Get(email) => /\ \/ LookupAnswer(email, getRes')
                           \/ getRes'.status = 500 /\ getRes'.data = <<>>
                        /\ getRes'.email = email
                        /\ db' = db /\ bucket' = bucket]_vars

\* A lookup has answered 200 with the rows of one submitter while the table
\* also holds a row of another.
C9_Witness ==
    /\ getRes.status = 200
    /\ Len(getRes.data) >= 1
    /\ \E i \in 1..Len(db) : db[i].createdByEmail # getRes.email
    /\ \A i \in 1..Len(getRes.data) : getRes.data[i].createdByEmail = getRes.email

\* C10: every row of the table points to an object that exists in the bucket
\* and whose content is the row's text.
C10_RowsMatchObjects ==
    \A i \in 1..Len(db) :
        \E n \in ObjectNames :
            /\ PublicUrl(n) = db[i].audioUrl
            /\ bucket[n] # NoObject
            /\ bucket[n].content = db[i].text

====
